---- MODULE Spec2Model ----
(***************************************************************************)
(* Model of the Allo Katana codec driver                                   *)
(* (sound/soc/bcm/allo-katana-codec.c).                                    *)
(*                                                                         *)
(* State: the chip's registers, the driver's private data (the stored DAI  *)
(* format word), the binding of the driver to the device, and a record of  *)
(* the last callback with its arguments, its return value and the          *)
(* regmap_write calls it issued.                                           *)
(***************************************************************************)
EXTENDS Integers, Sequences, FiniteSets, TLC

VARIABLES regs, fmt, bound, registered, probes, probe_steps, probe_ret, last

vars == <<regs, fmt, bound, registered, probes, probe_steps, probe_ret, last>>

(***************************************************************************)
(* Bounds of the model.                                                    *)
(***************************************************************************)
\* number of times the device may be probed in one behaviour
MaxProbes == 2

(***************************************************************************)
(* Register addresses and field values, lines 32-66.                       *)
(***************************************************************************)
KATANA_CODEC_CHIP_ID == 48
KATANA_CODEC_VIRT_BASE == 256

KATANA_CODEC_CHIP_ID_REG == KATANA_CODEC_VIRT_BASE + 0
KATANA_CODEC_RESET == KATANA_CODEC_VIRT_BASE + 1
KATANA_CODEC_VOLUME_1 == KATANA_CODEC_VIRT_BASE + 2
KATANA_CODEC_VOLUME_2 == KATANA_CODEC_VIRT_BASE + 3
KATANA_CODEC_MUTE == KATANA_CODEC_VIRT_BASE + 4
KATANA_CODEC_DSP_PROGRAM == KATANA_CODEC_VIRT_BASE + 5
KATANA_CODEC_DEEMPHASIS == KATANA_CODEC_VIRT_BASE + 6
KATANA_CODEC_DOP == KATANA_CODEC_VIRT_BASE + 7
KATANA_CODEC_FORMAT == KATANA_CODEC_VIRT_BASE + 8
KATANA_CODEC_COMMAND == KATANA_CODEC_VIRT_BASE + 9
KATANA_CODEC_MUTE_STREAM == KATANA_CODEC_VIRT_BASE + 10

KATANA_CODEC_MAX_REGISTER == KATANA_CODEC_VIRT_BASE + 10

KATANA_CODEC_CHAN_MONO == 0
KATANA_CODEC_CHAN_STEREO == 128
KATANA_CODEC_ALEN_16 == 16
KATANA_CODEC_ALEN_24 == 32
KATANA_CODEC_ALEN_32 == 48
KATANA_CODEC_RATE_11025 == 1
KATANA_CODEC_RATE_22050 == 2
KATANA_CODEC_RATE_32000 == 3
KATANA_CODEC_RATE_44100 == 4
KATANA_CODEC_RATE_48000 == 5
KATANA_CODEC_RATE_88200 == 6
KATANA_CODEC_RATE_96000 == 7
KATANA_CODEC_RATE_176400 == 8
KATANA_CODEC_RATE_192000 == 9
KATANA_CODEC_RATE_352800 == 10
KATANA_CODEC_RATE_384000 == 11

(***************************************************************************)
(* Values the driver takes from the kernel headers it includes:            *)
(* the clock-provider field of a DAI format word (sound/soc-dai.h) and the *)
(* error numbers (errno-base.h).                                           *)
(***************************************************************************)
SND_SOC_DAIFMT_MASTER_MASK == 61440
SND_SOC_DAIFMT_CBM_CFM == 4096
SND_SOC_DAIFMT_CBS_CFS == 16384
EINVAL == 22
ENOMEM == 12

(***************************************************************************)
(* The C operators & and | on non-negative integers.                       *)
(***************************************************************************)
RECURSIVE BitAnd(_, _)
BitAnd(a, b) ==
    IF a = 0 \/ b = 0 THEN 0
    ELSE (a % 2) * (b % 2) + 2 * BitAnd(a \div 2, b \div 2)

RECURSIVE BitOr(_, _)
BitOr(a, b) ==
    IF a = 0 THEN b
    ELSE IF b = 0 THEN a
    ELSE (IF a % 2 = 1 \/ b % 2 = 1 THEN 1 ELSE 0) + 2 * BitOr(a \div 2, b \div 2)

(***************************************************************************)
(* katana_codec_reg_defaults, lines 74-83, as a sequence of                *)
(* <<register, default>> pairs in the order of the table.                  *)
(***************************************************************************)
\* the table with a format default that carries no width code
katana_codec_reg_defaults_bad_format ==
    << <<KATANA_CODEC_RESET, 0>>,
       <<KATANA_CODEC_VOLUME_1, 240>>,
       <<KATANA_CODEC_VOLUME_2, 240>>,
       <<KATANA_CODEC_MUTE, 0>>,
       <<KATANA_CODEC_DSP_PROGRAM, 4>>,
       <<KATANA_CODEC_DEEMPHASIS, 0>>,
       <<KATANA_CODEC_DOP, 0>>,
       <<KATANA_CODEC_FORMAT, 132>> >>

katana_codec_reg_defaults ==
    << <<KATANA_CODEC_RESET, 0>>,
       <<KATANA_CODEC_VOLUME_1, 240>>,
       <<KATANA_CODEC_VOLUME_2, 240>>,
       <<KATANA_CODEC_MUTE, 0>>,
       <<KATANA_CODEC_DSP_PROGRAM, 4>>,
       <<KATANA_CODEC_DEEMPHASIS, 0>>,
       <<KATANA_CODEC_DOP, 0>>,
       <<KATANA_CODEC_FORMAT, 180>> >>

\* the registers that have an entry in the default table
DefaultedRegs ==
    {katana_codec_reg_defaults[i][1] : i \in DOMAIN katana_codec_reg_defaults}

\* the default of a register of the table (the regmap cache's seed)
RegDefault(reg) ==
    LET i == CHOOSE j \in DOMAIN katana_codec_reg_defaults :
                 katana_codec_reg_defaults[j][1] = reg
    IN katana_codec_reg_defaults[i][2]

\* the registers of the virtual range, lines 294-300
Registers == KATANA_CODEC_VIRT_BASE .. KATANA_CODEC_MAX_REGISTER

(***************************************************************************)
(* The enumerated controls, lines 85-127, and the control table,           *)
(* lines 131-138.                                                          *)
(***************************************************************************)
katana_codec_dsp_program_texts ==
    << "Linear Phase Fast Roll-off Filter",
       "Linear Phase Slow Roll-off Filter",
       "Minimum Phase Fast Roll-off Filter",
       "Minimum Phase Slow Roll-off Filter",
       "Apodizing Fast Roll-off Filter",
       "Corrected Minimum Phase Fast Roll-off Filter",
       "Brick Wall Filter" >>

\* the value table numbered without the gap at 5
katana_codec_dsp_program_values_no_gap == <<0, 1, 2, 3, 5, 6, 7>>

katana_codec_dsp_program_values == <<0, 1, 2, 3, 4, 6, 7>>

katana_codec_dsp_program ==
    [reg |-> KATANA_CODEC_DSP_PROGRAM, shift |-> 0, mask |-> 7,
     texts |-> katana_codec_dsp_program_texts,
     values |-> katana_codec_dsp_program_values]

katana_codec_deemphasis_texts == <<"Bypass", "32kHz", "44.1kHz", "48kHz">>

katana_codec_deemphasis_values == <<0, 1, 2, 3>>

katana_codec_deemphasis ==
    [reg |-> KATANA_CODEC_DEEMPHASIS, shift |-> 0, mask |-> 3,
     texts |-> katana_codec_deemphasis_texts,
     values |-> katana_codec_deemphasis_values]

\* the non-enumerated controls: the registers behind them and their maximum
katana_codec_controls ==
    << [name |-> "Master Playback Volume",
        regs |-> {KATANA_CODEC_VOLUME_1, KATANA_CODEC_VOLUME_2}, max |-> 255],
       [name |-> "Master Playback Switch",
        regs |-> {KATANA_CODEC_MUTE}, max |-> 1],
       [name |-> "DSP Program Route",
        regs |-> {katana_codec_dsp_program.reg},
        max |-> katana_codec_dsp_program.mask],
       [name |-> "Deemphasis Route",
        regs |-> {katana_codec_deemphasis.reg},
        max |-> katana_codec_deemphasis.mask],
       [name |-> "DoP Playback Switch",
        regs |-> {KATANA_CODEC_DOP}, max |-> 1] >>

\* the two SOC_ENUM controls of the table
katana_codec_enums == {katana_codec_dsp_program, katana_codec_deemphasis}

(***************************************************************************)
(* katana_codec_dai, lines 272-285: what the DAI declares for playback.    *)
(***************************************************************************)
katana_codec_dai ==
    [channels_min |-> 2, channels_max |-> 2,
     rate_min |-> 44100, rate_max |-> 384000,
     formats |-> {"S16_LE", "S32_LE"}]

(***************************************************************************)
(* Inputs of the callbacks.                                                *)
(***************************************************************************)
\* sample rates: the eight of the rate switch, the three that only have a
\* rate code, and one inside the declared range that has neither
Rates == {11025, 22050, 32000, 44100, 48000, 64000, 88200, 96000,
          176400, 192000, 352800, 384000}

Channels == {1, 2}

Formats == {"S8", "S16_LE", "S20_LE", "S24_LE", "S32_LE"}

\* format words handed to set_fmt: every clock-provider field value the
\* switch distinguishes, with and without bits outside the field
FmtWords == {0, 1, 4096, 4097, 8192, 16384, 16641}

\* results of an I2C transfer: success or the error -EIO
BusResults == {0, -5}

\* ids the chip may answer with
ChipIds == {KATANA_CODEC_CHIP_ID, 0, 49}

\* params_width(): the sample width of the negotiated format
params_width(p) ==
    CASE p.format = "S8" -> 8
      [] p.format = "S16_LE" -> 16
      [] p.format = "S20_LE" -> 20
      [] p.format = "S24_LE" -> 24
      [] p.format = "S32_LE" -> 32

Params == [rate : Rates, channels : Channels, format : Formats]

\* the parameters used when callbacks are interleaved: a sub-range of Params
\* with accepted and rejected rates and widths
SeqParams == [rate : {32000, 44100, 384000}, channels : Channels,
              format : {"S8", "S16_LE", "S32_LE"}]

(***************************************************************************)
(* katana_codec_hw_params, lines 151-236.                                  *)
(***************************************************************************)
\* the switch on params_width(), lines 173-187; -1 is the default branch
katana_codec_alen(width) ==
    CASE width = 16 -> KATANA_CODEC_ALEN_16
      [] width = 24 -> KATANA_CODEC_ALEN_24
      [] width = 32 -> KATANA_CODEC_ALEN_32
      [] OTHER -> -1

\* the rate switch with the code of 96000 under case 88200
katana_codec_rate_swapped(rate) ==
    CASE rate = 44100 -> KATANA_CODEC_RATE_44100
      [] rate = 48000 -> KATANA_CODEC_RATE_48000
      [] rate = 88200 -> KATANA_CODEC_RATE_96000
      [] rate = 96000 -> KATANA_CODEC_RATE_96000
      [] rate = 176400 -> KATANA_CODEC_RATE_176400
      [] rate = 192000 -> KATANA_CODEC_RATE_192000
      [] rate = 352800 -> KATANA_CODEC_RATE_352800
      [] rate = 384000 -> KATANA_CODEC_RATE_384000
      [] OTHER -> -1

\* the rate switch with a case for every rate code that is defined
katana_codec_rate_all_codes(rate) ==
    CASE rate = 11025 -> KATANA_CODEC_RATE_11025
      [] rate = 22050 -> KATANA_CODEC_RATE_22050
      [] rate = 32000 -> KATANA_CODEC_RATE_32000
      [] rate = 44100 -> KATANA_CODEC_RATE_44100
      [] rate = 48000 -> KATANA_CODEC_RATE_48000
      [] rate = 88200 -> KATANA_CODEC_RATE_88200
      [] rate = 96000 -> KATANA_CODEC_RATE_96000
      [] rate = 176400 -> KATANA_CODEC_RATE_176400
      [] rate = 192000 -> KATANA_CODEC_RATE_192000
      [] rate = 352800 -> KATANA_CODEC_RATE_352800
      [] rate = 384000 -> KATANA_CODEC_RATE_384000
      [] OTHER -> -1

\* the switch on params_rate(), lines 189-218; -1 is the default branch
katana_codec_rate(rate) ==
    CASE rate = 44100 -> KATANA_CODEC_RATE_44100
      [] rate = 48000 -> KATANA_CODEC_RATE_48000
      [] rate = 88200 -> KATANA_CODEC_RATE_88200
      [] rate = 96000 -> KATANA_CODEC_RATE_96000
      [] rate = 176400 -> KATANA_CODEC_RATE_176400
      [] rate = 192000 -> KATANA_CODEC_RATE_192000
      [] rate = 352800 -> KATANA_CODEC_RATE_352800
      [] rate = 384000 -> KATANA_CODEC_RATE_384000
      [] OTHER -> -1

\* the channel flag, lines 168-171
katana_codec_chan(channels) ==
    IF channels = 2 THEN KATANA_CODEC_CHAN_STEREO ELSE KATANA_CODEC_CHAN_MONO

\* the handler with the width and rate checks made before the switch on the
\* clock-provider field, so that they apply to both modes
katana_codec_hw_params_checks_first(stored, p, wret) ==
    LET master == BitAnd(stored, SND_SOC_DAIFMT_MASTER_MASK)
        alen == katana_codec_alen(params_width(p))
        rate == katana_codec_rate(p.rate)
        word == BitOr(BitOr(katana_codec_chan(p.channels), alen), rate)
    IN  IF master \notin {SND_SOC_DAIFMT_CBM_CFM, SND_SOC_DAIFMT_CBS_CFS}
        THEN [ret |-> -EINVAL, writes |-> << >>]
        ELSE IF alen = -1 \/ rate = -1
        THEN [ret |-> -EINVAL, writes |-> << >>]
        ELSE IF master = SND_SOC_DAIFMT_CBM_CFM
        THEN [ret |-> wret,
              writes |-> << [reg |-> KATANA_CODEC_FORMAT, val |-> word] >>]
        ELSE [ret |-> 0, writes |-> << >>]

\* The whole handler: its return value and the regmap_write calls it makes,
\* given the stored format word, the parameters and the result wret of the
\* bus write (if one is issued).
katana_codec_hw_params(stored, p, wret) ==
    LET master == BitAnd(stored, SND_SOC_DAIFMT_MASTER_MASK)
        alen == katana_codec_alen(params_width(p))
        rate == katana_codec_rate(p.rate)
        word == BitOr(BitOr(katana_codec_chan(p.channels), alen), rate)
    IN  IF master = SND_SOC_DAIFMT_CBM_CFM
        THEN IF alen = -1 THEN [ret |-> -EINVAL, writes |-> << >>]
             ELSE IF rate = -1 THEN [ret |-> -EINVAL, writes |-> << >>]
             ELSE [ret |-> wret,
                   writes |-> << [reg |-> KATANA_CODEC_FORMAT, val |-> word] >>]
        ELSE IF master = SND_SOC_DAIFMT_CBS_CFS
        THEN [ret |-> 0, writes |-> << >>]
        ELSE [ret |-> -EINVAL, writes |-> << >>]

(***************************************************************************)
(* katana_codec_set_fmt, lines 238-247: the value stored in priv->fmt.     *)
(***************************************************************************)
\* set_fmt keeping only the clock-provider field
katana_codec_set_fmt_masked(word) == BitAnd(word, SND_SOC_DAIFMT_MASTER_MASK)

katana_codec_set_fmt(word) == word

(***************************************************************************)
(* katana_codec_dai_mute_stream, lines 249-264.                            *)
(***************************************************************************)
\* mute_stream writing the mixer's mute register
katana_codec_dai_mute_stream_mixer(mute, stream, wret) ==
    [ret |-> wret,
     writes |-> << [reg |-> KATANA_CODEC_MUTE, val |-> mute] >>]

katana_codec_dai_mute_stream(mute, stream, wret) ==
    [ret |-> wret,
     writes |-> << [reg |-> KATANA_CODEC_MUTE_STREAM, val |-> mute] >>]

(***************************************************************************)
(* regmap_write as the chip sees it: a transfer that succeeds stores the   *)
(* value, one that fails leaves the chip's register as it was.             *)
(***************************************************************************)
RECURSIVE ApplyWrites(_, _, _)
ApplyWrites(r, writes, wret) ==
    IF writes = << >> \/ wret # 0 THEN r
    ELSE ApplyWrites([r EXCEPT ![Head(writes).reg] = Head(writes).val],
                     Tail(writes), wret)

\* the record of a callback that is not a DAI operation
NoArgs == [rate |-> 0, channels |-> 0, format |-> "", word |-> 0,
           mute |-> 0, stream |-> 0, wret |-> 0]

(***************************************************************************)
(* allo_katana_component_probe, lines 316-353.  The inputs are the         *)
(* outcomes of the framework calls; the chip id is the chip's register.    *)
(* probe_steps records the calls the function makes, in order.             *)
(***************************************************************************)
\* regmap_update_bits(regmap, KATANA_CODEC_RESET, 0x01, 0x01), line 342, on
\* the cache that devm_regmap_init_i2c has just seeded from the defaults
katana_codec_reset_value ==
    BitOr(BitAnd(RegDefault(KATANA_CODEC_RESET), 255 - 1), BitAnd(1, 1))

\* one entry of probe_steps: the call, its return value, and for the chip-id
\* read the value left in chip_id
Step(call, ret, val) == [call |-> call, ret |-> ret, val |-> val]

allo_katana_component_probe(regmap_ok, alloc_ok, read_ret, chip, upd_ret, reg_ret) ==
    LET chip_id == IF read_ret = 0 THEN chip ELSE 0
        reset == [reg |-> KATANA_CODEC_RESET, val |-> katana_codec_reset_value]
        s1 == << Step("devm_regmap_init_i2c", IF regmap_ok THEN 0 ELSE -ENOMEM, 0) >>
        s2 == Append(s1, Step("devm_kzalloc", IF alloc_ok THEN 0 ELSE -ENOMEM, 0))
        s3 == Append(s2, Step("regmap_read", read_ret, chip_id))
        s4 == Append(s3, Step("regmap_update_bits", upd_ret, 0))
        s5 == Append(s4, Step("snd_soc_register_component", reg_ret, 1))
    IN  IF ~regmap_ok
        THEN [ret |-> -ENOMEM, steps |-> s1,
              writes |-> << >>, registered |-> FALSE]
        ELSE IF ~alloc_ok
        THEN [ret |-> -ENOMEM, steps |-> s2,
              writes |-> << >>, registered |-> FALSE]
        ELSE IF read_ret # 0 \/ chip_id # KATANA_CODEC_CHIP_ID
        THEN [ret |-> read_ret, steps |-> s3,
              writes |-> << >>, registered |-> FALSE]
        ELSE IF reg_ret # 0
        THEN [ret |-> reg_ret, steps |-> s5,
              writes |-> <<reset>>, registered |-> FALSE]
        ELSE [ret |-> 0, steps |-> s5,
              writes |-> <<reset>>, registered |-> TRUE]

(***************************************************************************)
(* Initial state: the device is unbound, the chip holds the defaults of    *)
(* the register table and answers with some chip id.                       *)
(***************************************************************************)
Init ==
    /\ \E id \in ChipIds :
          regs = [r \in Registers |->
                    IF r = KATANA_CODEC_CHIP_ID_REG THEN id
                    ELSE IF r \in DefaultedRegs THEN RegDefault(r)
                    ELSE 0]
    /\ fmt = 0
    /\ bound = FALSE
    /\ registered = FALSE
    /\ probes = 0
    /\ probe_steps = << >>
    /\ probe_ret = 0
    /\ last = [op |-> "none", ret |-> 0, writes |-> << >>] @@ NoArgs

(***************************************************************************)
(* Actions.                                                                *)
(***************************************************************************)
Probe ==
    /\ ~bound
    /\ probes < MaxProbes
    /\ \E regmap_ok, alloc_ok \in BOOLEAN, read_ret, upd_ret \in BusResults,
          reg_ret \in {0, -ENOMEM} :
          LET res == allo_katana_component_probe(regmap_ok, alloc_ok, read_ret,
                         regs[KATANA_CODEC_CHIP_ID_REG], upd_ret, reg_ret)
          IN  /\ regs' = ApplyWrites(regs, res.writes, upd_ret)
              /\ fmt' = 0
              /\ bound' = (res.ret = 0)
              /\ registered' = res.registered
              /\ probe_steps' = res.steps
              /\ probe_ret' = res.ret
              /\ last' = [op |-> "probe", ret |-> res.ret,
                          writes |-> res.writes]
                         @@ [NoArgs EXCEPT !.wret = IF res.writes = << >>
                                                  THEN 0 ELSE upd_ret]
    /\ probes' = probes + 1

\* allo_katana_component_remove, lines 355-358
Remove ==
    /\ bound
    /\ bound' = FALSE
    /\ registered' = FALSE
    /\ last' = [op |-> "remove", ret |-> 0, writes |-> << >>] @@ NoArgs
    /\ UNCHANGED <<regs, fmt, probes, probe_steps, probe_ret>>

SetFmt ==
    /\ registered
    /\ \E word \in FmtWords :
          /\ fmt' = katana_codec_set_fmt(word)
          /\ last' = [op |-> "set_fmt", ret |-> 0, writes |-> << >>]
                     @@ [NoArgs EXCEPT !.word = word]
    /\ UNCHANGED <<regs, bound, registered, probes, probe_steps, probe_ret>>

\* a call of katana_codec_hw_params with parameters drawn from P; wret is
\* recorded as 0 when the handler issues no write
HwParamsOver(P) ==
    /\ registered
    /\ \E p \in P, wret \in BusResults :
          LET res == katana_codec_hw_params(fmt, p, wret)
          IN  /\ regs' = ApplyWrites(regs, res.writes, wret)
              /\ last' = [op |-> "hw_params", ret |-> res.ret,
                          writes |-> res.writes]
                         @@ [NoArgs EXCEPT !.rate = p.rate,
                                           !.channels = p.channels,
                                           !.format = p.format,
                                           !.wret = IF res.writes = << >>
                                                    THEN 0 ELSE wret]
    /\ UNCHANGED <<fmt, bound, registered, probes, probe_steps, probe_ret>>

HwParams == HwParamsOver(SeqParams)

MuteStream ==
    /\ registered
    /\ \E mute \in {0, 1}, stream \in {0, 1}, wret \in BusResults :
          LET res == katana_codec_dai_mute_stream(mute, stream, wret)
          IN  /\ regs' = ApplyWrites(regs, res.writes, wret)
              /\ last' = [op |-> "mute_stream", ret |-> res.ret,
                          writes |-> res.writes]
                         @@ [NoArgs EXCEPT !.mute = mute, !.stream = stream,
                                           !.wret = wret]
    /\ UNCHANGED <<fmt, bound, registered, probes, probe_steps, probe_ret>>

Next == Probe \/ Remove \/ SetFmt \/ HwParams \/ MuteStream

Spec == Init /\ [][Next]_vars

(***************************************************************************)
(* katana_codec_hw_params as a function of its inputs: a registered codec  *)
(* with any stored format word, and one call with any parameters.          *)
(***************************************************************************)
InitFn ==
    /\ regs = [r \in Registers |->
                 IF r = KATANA_CODEC_CHIP_ID_REG THEN KATANA_CODEC_CHIP_ID
                 ELSE IF r = KATANA_CODEC_RESET THEN katana_codec_reset_value
                 ELSE IF r \in DefaultedRegs THEN RegDefault(r)
                 ELSE 0]
    /\ \E word \in FmtWords : fmt = katana_codec_set_fmt(word)
    /\ bound = TRUE
    /\ registered = TRUE
    /\ probes = 1
    /\ probe_steps = allo_katana_component_probe(TRUE, TRUE, 0,
                          KATANA_CODEC_CHIP_ID, 0, 0).steps
    /\ probe_ret = 0
    /\ last = [op |-> "none", ret |-> 0, writes |-> << >>] @@ NoArgs

HwParamsOnce ==
    /\ last.op = "none"
    /\ HwParamsOver(Params)

NextFn == HwParamsOnce

SpecFn == InitFn /\ [][NextFn]_vars

(***************************************************************************)
(* Properties.  The clock-provider field, the widths and the rate codes    *)
(* are restated here arithmetically, independently of the handler.         *)
(***************************************************************************)
\* bits 15..12 of the stored format word
MasterField == (fmt \div 4096) % 16

IsMaster == MasterField = 1

IsSlave == MasterField = 4

\* the rates the handler accepts, in the order of their rate codes 0x04..0x0b
AcceptedRates == <<44100, 48000, 88200, 96000, 176400, 192000, 352800, 384000>>

AcceptedRateSet == {AcceptedRates[i] : i \in DOMAIN AcceptedRates}

WidthOf(f) == IF f = "S8" THEN 8 ELSE IF f = "S16_LE" THEN 16
              ELSE IF f = "S20_LE" THEN 20 ELSE IF f = "S24_LE" THEN 24 ELSE 32

\* the format byte for channels c, width w, rate r
ExpectedFormat(c, w, r) ==
    (IF c = 2 THEN 128 ELSE 0) + 16 * ((w \div 8) - 1)
    + 3 + (CHOOSE i \in DOMAIN AcceptedRates : AcceptedRates[i] = r)

\* the last callback was hw_params with an accepted width and rate
ValidCall(l) ==
    /\ l.op = "hw_params"
    /\ WidthOf(l.format) \in {16, 24, 32}
    /\ l.rate \in AcceptedRateSet

\* C1: in master mode, hw_params with a width in {16, 24, 32} and one of the
\* eight accepted rates performs exactly one register write, to
\* KATANA_CODEC_FORMAT, of channel flag | width code | rate code, and
\* returns 0 when the write succeeds.
C1_MasterWritesFormat ==
    (IsMaster /\ ValidCall(last)) =>
        LET v == ExpectedFormat(last.channels, WidthOf(last.format), last.rate)
        IN  /\ last.writes = << [reg |-> KATANA_CODEC_FORMAT, val |-> v] >>
            /\ (last.wret = 0 => last.ret = 0 /\ regs[KATANA_CODEC_FORMAT] = v)

C1_Witness ==
    /\ IsMaster
    /\ ValidCall(last)
    /\ last.rate = 88200 /\ last.format = "S24_LE" /\ last.channels = 1
    /\ last.ret = 0
    /\ regs[KATANA_CODEC_FORMAT] = 38

\* C2: in master mode, hw_params with a width outside {16, 24, 32} or a
\* rate outside the eight accepted ones (11025, 22050 and 32000 included)
\* returns -EINVAL and writes no register; all registers keep their values.
C2_MasterRejects ==
    [][(/\ last'.op = "hw_params"
        /\ IsMaster
        /\ ~ValidCall(last'))
       => (/\ last'.ret = -22
           /\ last'.writes = << >>
           /\ regs' = regs)]_vars

C2_Witness ==
    /\ IsMaster
    /\ last.op = "hw_params"
    /\ last.rate = 32000 /\ last.format = "S16_LE"
    /\ last.ret = -22
    /\ last.writes = << >>

\* C5: in slave mode, hw_params returns 0 and writes no register for every
\* rate, width and channel count; KATANA_CODEC_FORMAT is unchanged.
C5_SlaveNoWrite ==
    [][(last'.op = "hw_params" /\ IsSlave)
       => (/\ last'.ret = 0
           /\ last'.writes = << >>
           /\ regs' = regs)]_vars

C5_Witness ==
    /\ IsSlave
    /\ last.op = "hw_params"
    /\ last.rate = 64000 /\ last.format = "S8" /\ last.channels = 1
    /\ last.ret = 0
    /\ regs[KATANA_CODEC_FORMAT] = 180

\* C10: every configuration katana_codec_dai declares for playback (2
\* channels, S16_LE or S32_LE, any rate from rate_min to rate_max) is accepted
\* by hw_params in master mode: it returns 0 and programs the format
\* register when the bus write succeeds.
C10_DeclaredIsAccepted ==
    (/\ last.op = "hw_params"
     /\ IsMaster
     /\ last.channels >= katana_codec_dai.channels_min
     /\ last.channels <= katana_codec_dai.channels_max
     /\ last.format \in katana_codec_dai.formats
     /\ last.rate >= katana_codec_dai.rate_min
     /\ last.rate <= katana_codec_dai.rate_max
     /\ last.wret = 0)
    => (last.ret = 0 /\ Len(last.writes) = 1)

\* the calls of the last probe, in order
ProbeCalls == [i \in DOMAIN probe_steps |-> probe_steps[i].call]

\* the last probe read the chip id and the read failed or gave another id
BadChipRead ==
    /\ Len(probe_steps) >= 3
    /\ (probe_steps[3].ret # 0 \/ probe_steps[3].val # 48)

\* C3: probe returns a non-zero error code whenever the chip-id read fails
\* or the id read is not 0x30, and then neither writes KATANA_CODEC_RESET
\* nor registers the component; probe returns 0 only if the component has
\* been registered.
C3_ProbeFailsOnBadChip ==
    last.op = "probe" =>
        /\ BadChipRead =>
              (probe_ret # 0 /\ last.writes = << >> /\ ~registered)
        /\ probe_ret = 0 => registered

\* C4: a probe that returns 0 has made exactly these calls in this order:
\* regmap creation, allocation, chip-id read giving 0x30, setting bit 0 of
\* KATANA_CODEC_RESET, registration of the component with one DAI; the
\* component is registered only after the id is verified and the reset
\* bit written, and after a failed step no later step is made.
C4_ProbeOrder ==
    last.op = "probe" =>
        /\ probe_ret = 0 =>
              /\ ProbeCalls = <<"devm_regmap_init_i2c", "devm_kzalloc",
                                "regmap_read", "regmap_update_bits",
                                "snd_soc_register_component">>
              /\ probe_steps[3].val = 48
              /\ probe_steps[5].val = 1
        /\ registered =>
              /\ probe_steps[3].val = 48
              /\ regs[KATANA_CODEC_RESET] % 2 = 1
        /\ \A i \in DOMAIN probe_steps :
              probe_steps[i].ret # 0 => i = Len(probe_steps)

\* C6: set_fmt accepts every format word, stores it unmodified, returns 0
\* and writes no register; the stored word is 0 after probe; hw_params
\* with a stored word whose clock-provider field is neither CBM_CFM nor
\* CBS_CFS returns -EINVAL and writes no register.
C6_SetFmtThenDispatch ==
    [][/\ last'.op = "set_fmt" =>
            (/\ fmt' = last'.word
             /\ last'.ret = 0
             /\ last'.writes = << >>
             /\ regs' = regs)
       /\ (last'.op = "probe" /\ registered') => fmt' = 0
       /\ (last'.op = "hw_params" /\ ~IsMaster /\ ~IsSlave) =>
            (/\ last'.ret = -22
             /\ last'.writes = << >>
             /\ regs' = regs)
       /\ (last'.op = "hw_params" /\ last'.writes # << >>) => IsMaster
      ]_vars

C6_Witness ==
    /\ last.op = "hw_params"
    /\ fmt = 0
    /\ last.rate = 44100 /\ last.format = "S16_LE" /\ last.channels = 2
    /\ last.ret = -22

\* C7: mute_stream writes its mute argument to KATANA_CODEC_MUTE_STREAM and
\* to no other register, whatever the stream direction and the stored
\* format; it returns the result of the write; KATANA_CODEC_MUTE and
\* KATANA_CODEC_FORMAT are never modified by it.
C7_MuteStreamOnly ==
    [][last'.op = "mute_stream" =>
         /\ last'.writes =
                << [reg |-> KATANA_CODEC_VIRT_BASE + 10, val |-> last'.mute] >>
         /\ last'.ret = last'.wret
         /\ \A r \in DOMAIN regs :
                r # KATANA_CODEC_VIRT_BASE + 10 => regs'[r] = regs[r]
         /\ regs'[KATANA_CODEC_VIRT_BASE + 10] =
                (IF last'.wret = 0 THEN last'.mute
                 ELSE regs[KATANA_CODEC_VIRT_BASE + 10])
      ]_vars

C7_Witness ==
    /\ last.op = "mute_stream"
    /\ last.mute = 1 /\ last.stream = 1
    /\ last.ret = 0
    /\ regs[KATANA_CODEC_MUTE_STREAM] = 1
    /\ regs[KATANA_CODEC_MUTE] = 0
    /\ IsMaster

\* the values of a sequence
Range(seq) == {seq[i] : i \in DOMAIN seq}

\* C8: every register behind a mixer control has an entry in
\* katana_codec_reg_defaults whose value fits the control's range; for
\* the two enumerated controls the text and value tables have the same
\* length, the values are pairwise distinct and fit the mask, and the
\* register's default is one of the selectable values.  Stated of the
\* registered component, whose control registers then hold values the
\* controls can show.
C8_ControlTables ==
    registered =>
        /\ \A i \in DOMAIN katana_codec_controls :
              \A r \in katana_codec_controls[i].regs :
                 /\ r \in DefaultedRegs
                 /\ RegDefault(r) \in 0 .. katana_codec_controls[i].max
                 /\ regs[r] \in 0 .. katana_codec_controls[i].max
        /\ \A e \in katana_codec_enums :
              /\ Len(e.texts) = Len(e.values)
              /\ Cardinality(Range(e.values)) = Len(e.values)
              /\ \A v \in Range(e.values) : v \in 0 .. e.mask
              /\ e.reg \in DefaultedRegs
              /\ RegDefault(e.reg) \in Range(e.values)
              /\ regs[e.reg] \in Range(e.values)

\* the component is registered, so the controls are exposed, and the
\* registers behind them hold their defaults
C8_Witness ==
    /\ registered
    /\ regs[KATANA_CODEC_DSP_PROGRAM] = 4
    /\ regs[KATANA_CODEC_DEEMPHASIS] = 0
    /\ regs[KATANA_CODEC_VOLUME_1] = 240
    /\ regs[KATANA_CODEC_VOLUME_2] = 240
    /\ regs[KATANA_CODEC_MUTE] = 0
    /\ regs[KATANA_CODEC_DOP] = 0

\* a format byte: bit 7 the channel flag, bits 5..4 one of 0x10, 0x20, 0x30,
\* bit 6 clear, bits 3..0 a rate code in 0x04..0x0b
WellFormedFormat(v) ==
    /\ v \in 0 .. 255
    /\ (v \div 16) % 8 \in {1, 2, 3}
    /\ v % 16 \in 4 .. 11

\* C9: starting from the register defaults, after any sequence of
\* callbacks KATANA_CODEC_FORMAT holds a well-formed format byte, and only a
\* successful master-mode hw_params changes the register.
C9_FormatWellFormed ==
    /\ [] WellFormedFormat(regs[KATANA_CODEC_FORMAT])
    /\ [][regs'[KATANA_CODEC_FORMAT] # regs[KATANA_CODEC_FORMAT] =>
            (last'.op = "hw_params" /\ last'.ret = 0 /\ IsMaster)]_vars

C9_Witness ==
    /\ last.op = "hw_params"
    /\ last.ret = -5
    /\ last.rate = 44100
    /\ regs[KATANA_CODEC_FORMAT] = 27
    /\ regs[KATANA_CODEC_MUTE_STREAM] = 1

====
